---- MODULE Spec2Model ----
(***************************************************************************)
(* Model of the ad-hoc query gateway, Handler.RunQuery (package handlers). *)
(* One request is followed from BindJSON to the handler's return.  The SQL *)
(* text is a sequence of text fragments; the string functions the handler  *)
(* applies (TrimSpace, ToUpper, Contains, +=) are computed on the          *)
(* characters of the fragments.  The two collaborators the handler calls,  *)
(* sqlparser.Parse and h.db.Query, are modelled by the single-statement    *)
(* grammar both of them implement on the fragments used here.              *)
(***************************************************************************)
EXTENDS Integers, Sequences, FiniteSets, TLC

\* ------------------------------------------------------------------ bounds
MaxLen == 3        \* fragments in an enumerated request text
MaxCols == 2       \* columns of a result
MaxSmallRows == 2  \* largest "small" natural result
MaxOver == 1       \* how far a large natural result exceeds the ceiling

\* ------------------------------------------------------- program constants
DefaultLimit == 100

StatusOK == 200
StatusBadRequest == 400
StatusInternalServerError == 500

\* ---------------------------------------------------------- text fragments
SP == " "
SEL == "select * from users"
WH == "where name='limit'"
LIM == "LiMiT 2"
SEMI == ";"
CMT == "-- c"
INS == "insert into users values(1)"
UPD == "update users set a=1"
DEL == "delete from users"
DDL == "drop table users"
JUNK == "selec"
LimitSuffix == " LIMIT 100"

Fragments == {SP, SEL, WH, LIM, SEMI, CMT, INS, UPD, DEL, DDL, JUNK}

\* The characters of a fragment.
Chars(f) ==
  CASE f = " " -> <<" ">>
    [] f = "select * from users" -> <<"s","e","l","e","c","t"," ","*"," ","f","r","o","m"," ","u","s","e","r","s">>
    [] f = "where name='limit'" -> <<"w","h","e","r","e"," ","n","a","m","e","=","'","l","i","m","i","t","'">>
    [] f = "LiMiT 2" -> <<"L","i","M","i","T"," ","2">>
    [] f = ";" -> <<";">>
    [] f = "-- c" -> <<"-","-"," ","c">>
    [] f = "insert into users values(1)" -> <<"i","n","s","e","r","t"," ","i","n","t","o"," ","u","s","e","r","s"," ","v","a","l","u","e","s","(","1",")">>
    [] f = "update users set a=1" -> <<"u","p","d","a","t","e"," ","u","s","e","r","s"," ","s","e","t"," ","a","=","1">>
    [] f = "delete from users" -> <<"d","e","l","e","t","e"," ","f","r","o","m"," ","u","s","e","r","s">>
    [] f = "drop table users" -> <<"d","r","o","p"," ","t","a","b","l","e"," ","u","s","e","r","s">>
    [] f = "selec" -> <<"s","e","l","e","c">>
    [] f = " LIMIT 100" -> <<" ","L","I","M","I","T"," ","1","0","0">>

RECURSIVE Flatten(_)
\* The characters of a text: the concatenation of its fragments.
Flatten(t) == IF t = <<>> THEN <<>> ELSE Chars(Head(t)) \o Flatten(Tail(t))

LowerLetters == <<"a","b","c","d","e","f","g","h","i","j","k","l","m",
                  "n","o","p","q","r","s","t","u","v","w","x","y","z">>
UpperLetters == <<"A","B","C","D","E","F","G","H","I","J","K","L","M",
                  "N","O","P","Q","R","S","T","U","V","W","X","Y","Z">>
Digits == {"0","1","2","3","4","5","6","7","8","9"}

IsSpace(c) == c \in {" ", "\t", "\n", "\r"}

IsWordChar(c) ==
  \/ \E i \in 1..26 : c = LowerLetters[i] \/ c = UpperLetters[i]
  \/ c \in Digits

\* strings.ToUpper, one character at a time.
ToUpper(s) ==
  [k \in 1..Len(s) |->
     IF \E i \in 1..26 : s[k] = LowerLetters[i]
     THEN UpperLetters[CHOOSE i \in 1..26 : s[k] = LowerLetters[i]]
     ELSE s[k]]

\* strings.Contains on character sequences.
Contains(s, sub) ==
  \E i \in 0..(Len(s) - Len(sub)) : SubSeq(s, i + 1, i + Len(sub)) = sub

AllSpace(f) == \A i \in 1..Len(Chars(f)) : IsSpace(Chars(f)[i])

RECURSIVE TrimLeft(_)
TrimLeft(t) ==
  IF t # <<>> /\ AllSpace(Head(t)) THEN TrimLeft(Tail(t)) ELSE t

RECURSIVE TrimRight(_)
TrimRight(t) ==
  IF t # <<>> /\ AllSpace(t[Len(t)]) THEN TrimRight(SubSeq(t, 1, Len(t) - 1))
  ELSE t

NoTrim(t) == t

\* strings.TrimSpace(req.SQL): every fragment of a request is either all
\* white space or neither starts nor ends with white space, so the leading
\* and trailing white space of the text is its outermost blank fragments.
TrimSpace(t) == TrimRight(TrimLeft(t))

\* ------------------------------------------------- the SQL grammar (tokens)
\* The token class of a fragment.
FragKind(f) ==
  CASE f = SP -> "space"
    [] f = SEL -> "select"
    [] f = WH -> "where"
    [] f = LIM -> "limit"
    [] f = LimitSuffix -> "limit"
    [] f = SEMI -> "semi"
    [] f = CMT -> "comment"
    [] f = INS -> "insert"
    [] f = UPD -> "update"
    [] f = DEL -> "delete"
    [] f = DDL -> "ddl"
    [] f = JUNK -> "junk"

\* The part of a text in front of its first "-- " comment; the text has no
\* line break, so the comment runs to its end.
Code(t) ==
  IF \E i \in 1..Len(t) : t[i] = CMT
  THEN SubSeq(t, 1, (CHOOSE i \in 1..Len(t) :
                        t[i] = CMT /\ \A j \in 1..(i - 1) : t[j] # CMT) - 1)
  ELSE t

\* Two fragments written without a separator between two word characters
\* are read as one word, which is none of the keywords.
Glued(t, i) ==
  /\ i > 1
  /\ IsWordChar(Chars(t[i - 1])[Len(Chars(t[i - 1]))])
  /\ IsWordChar(Chars(t[i])[1])

IsToken(k) == k # "space"

\* The tokens the scanner hands to the grammar: white space and comments
\* are skipped.
Tokens(t) ==
  LET code == Code(t)
      kinds == [i \in 1..Len(code) |->
                  IF Glued(code, i) THEN "junk" ELSE FragKind(code[i])]
  IN SelectSeq(kinds, IsToken)

\* any_command: command semicolon_opt, for the commands built from the
\* fragments: SELECT [WHERE] [LIMIT], INSERT, UPDATE, DELETE, DROP.
Step(st, k) ==
  CASE st = "start" /\ k = "select" -> "select"
    [] st = "start" /\ k \in {"insert", "update", "delete", "ddl"} -> "other"
    [] st = "select" /\ k = "where" -> "where"
    [] st \in {"select", "where"} /\ k = "limit" -> "limit"
    [] st \in {"select", "where", "limit", "other"} /\ k = "semi" -> "end"
    [] OTHER -> "error"

RECURSIVE Run(_, _)
Run(toks, st) ==
  IF toks = <<>> \/ st = "error" THEN st
  ELSE Run(Tail(toks), Step(st, Head(toks)))

Accepted(toks) == Run(toks, "start") \notin {"start", "error"}

\* The token at which the grammar gives up (one past the end when the text
\* ends too early).
ErrPos(toks) ==
  IF \E i \in 1..Len(toks) : Run(SubSeq(toks, 1, i), "start") = "error"
  THEN CHOOSE i \in 1..Len(toks) :
         /\ Run(SubSeq(toks, 1, i), "start") = "error"
         /\ \A j \in 1..(i - 1) : Run(SubSeq(toks, 1, j), "start") # "error"
  ELSE Len(toks) + 1

StmtKind(k) ==
  CASE k = "select" -> "Select"
    [] k = "insert" -> "Insert"
    [] k = "update" -> "Update"
    [] k = "delete" -> "Delete"
    [] k = "ddl" -> "DDL"

\* Go's nil error, and an error value with its message.
NoErr == [text |-> "", pos |-> 0]
Err(text, pos) == [text |-> text, pos |-> pos]

\* stmt, err := sqlparser.Parse(sqlText): the statement's top-level kind,
\* or the parser's error.
Parse(t) ==
  LET toks == Tokens(t)
  IN IF Accepted(toks)
     THEN [stmt |-> StmtKind(toks[1]), err |-> NoErr]
     ELSE [stmt |-> "nil", err |-> Err("syntax error at position", ErrPos(toks))]

IsSelectOrInsert(stmt) == stmt \in {"Select", "Insert"}

\* switch stmt.(type) { case *sqlparser.Select: default: ... }
IsSelect(stmt) == stmt = "Select"

ContainsLimitCaseSensitive(t) == Contains(Flatten(t), <<"L","I","M","I","T">>)

\* strings.Contains(strings.ToUpper(sqlText), "LIMIT")
ContainsLimit(t) == Contains(ToUpper(Flatten(t)), <<"L","I","M","I","T">>)

\* if !strings.Contains(...) { sqlText += " LIMIT 100" }
AddLimit(t) == IF ~ContainsLimit(t) THEN Append(t, LimitSuffix) ELSE t

\* --------------------------------------------------------------- database
NoLimit == -1

\* The row count the statement's own LIMIT clause allows.
LimitOf(f) == IF f = LIM THEN 2 ELSE DefaultLimit

\* The LIMIT in force when the database runs the text: the one the grammar
\* reads, which a comment hides.
EffectiveLimit(t) ==
  LET code == Code(t)
  IN IF \E i \in 1..Len(code) : FragKind(code[i]) = "limit"
     THEN LimitOf(code[CHOOSE i \in 1..Len(code) : FragKind(code[i]) = "limit"])
     ELSE NoLimit

Min(a, b) == IF a < b THEN a ELSE b

\* The rows the cursor of h.db.Query(t) yields over a natural result of n rows.
CursorRows(t, n) ==
  IF EffectiveLimit(t) = NoLimit THEN n ELSE Min(n, EffectiveLimit(t))

\* The database prepares one statement; it refuses any other text.
DbAccepts(t) == Accepted(Tokens(t))

Null == <<>>

\* The driver's value of column position j in row i of the result.
Cell(i, j, seed) == IF (i + j + seed) % 2 = 0 THEN Null ELSE <<i, j>>

ColNames == {"x", "y"}

ColumnLists == UNION {[1..k -> ColNames] : k \in 1..MaxCols}

\* Natural results: small ones, and ones above the ceiling.
TableSizes ==
  (0..MaxSmallRows) \cup ((DefaultLimit + 1)..(DefaultLimit + MaxOver))

NullSeeds == {0, 1}

\* ------------------------------------------------------------ the handler
VARIABLES
  req,       \* the request body: is it JSON, and its sql field
  pc,        \* the handler's position
  sqlText,   \* local sqlText
  stmt,      \* local stmt, the parsed statement's kind
  parses,    \* the texts handed to sqlparser.Parse
  queries,   \* the texts handed to h.db.Query
  db,        \* what the database holds for the query: columns, rows, nulls
  fault,     \* the failure the driver had, if any
  cursor,    \* rows: "none", "open" or "closed"
  deferred,  \* defer rows.Close() is registered
  closes,    \* calls of rows.Close()
  cols,      \* local cols
  result,    \* local result
  iterErr,   \* rows.Err()
  resps      \* the responses written with c.JSON

vars == <<req, pc, sqlText, stmt, parses, queries, db, fault, cursor,
          deferred, closes, cols, result, iterErr, resps>>

\* The spec's scenario "  select * from users; drop table users;".
ChainedScenario == <<SP, SP, SEL, SEMI, SP, DDL, SEMI>>

\* A comment runs to the end of the text: what follows "-- " is comment text,
\* so a request text carries its comment, if any, as its last fragment.
CommentLast(t) == \A i \in 1..(Len(t) - 1) : t[i] # CMT

Texts ==
  {t \in UNION {[1..k -> Fragments] : k \in 0..MaxLen} : CommentLast(t)}
    \cup {ChainedScenario}

Requests == {[json |-> FALSE, sql |-> <<>>]} \cup [json : {TRUE}, sql : Texts]

NoDb == [cols |-> <<>>, n |-> 0, seed |-> 0]

Databases == [cols : ColumnLists, n : TableSizes, seed : NullSeeds]

Init ==
  /\ req \in Requests
  /\ pc = "bind"
  /\ sqlText = <<>>
  /\ stmt = "nil"
  /\ parses = <<>>
  /\ queries = <<>>
  /\ db = NoDb
  /\ fault = "none"
  /\ cursor = "none"
  /\ deferred = FALSE
  /\ closes = 0
  /\ cols = <<>>
  /\ result = <<>>
  /\ iterErr = NoErr
  /\ resps = <<>>

\* gin.H{"error": prefix + err.Error()}
ErrorBody(prefix, err) == [error |-> [prefix |-> prefix, err |-> err]]

PartialBody(prefix, err, c, rows) ==
  [error |-> [prefix |-> prefix, err |-> err], columns |-> c, rows |-> rows]

\* The body of a failure after the rows loop has started.
FailureBody(prefix, err, c, rows) == ErrorBody(prefix, err)

ParseErrorIgnored(err) == FALSE

\* if err != nil, after sqlparser.Parse
ParseFailed(err) == err # NoErr

SyntaxErrorBodyNoDetail(err) == ErrorBody("SQL syntax error: ", NoErr)

\* gin.H{"error": "SQL syntax error: " + err.Error()}
SyntaxErrorBody(err) == ErrorBody("SQL syntax error: ", err)

\* gin.H{"columns": cols, "rows": result}
ResultBody(c, rows) == [columns |-> c, rows |-> rows]

NoDeferredClose(d, c, n) == [cursor |-> c, closes |-> n]

\* The deferred rows.Close() runs when the handler returns.
RunDeferred(d, c, n) ==
  IF d THEN [cursor |-> "closed", closes |-> n + 1]
  ELSE [cursor |-> c, closes |-> n]

\* c.JSON(status, body); return
Return(status, body) ==
  /\ resps' = Append(resps, [status |-> status, body |-> body])
  /\ pc' = "done"
  /\ cursor' = RunDeferred(deferred, cursor, closes).cursor
  /\ closes' = RunDeferred(deferred, cursor, closes).closes

\* rowMap[col] = v
Put(m, k, v) == [x \in (DOMAIN m) \cup {k} |-> IF x = k THEN v ELSE m[x]]

RECURSIVE FillFirstWins(_, _, _, _)
FillFirstWins(m, c, vals, i) ==
  IF i > Len(c) THEN m
  ELSE FillFirstWins(IF c[i] \in DOMAIN m THEN m ELSE Put(m, c[i], vals[i]),
                     c, vals, i + 1)

RECURSIVE FillSkipNull(_, _, _, _)
FillSkipNull(m, c, vals, i) ==
  IF i > Len(c) THEN m
  ELSE FillSkipNull(IF vals[i] = Null THEN m ELSE Put(m, c[i], vals[i]),
                    c, vals, i + 1)

RECURSIVE Fill(_, _, _, _)
\* for i, col := range cols { rowMap[col] = vals[i] }, from position i on
Fill(m, c, vals, i) ==
  IF i > Len(c) THEN m ELSE Fill(Put(m, c[i], vals[i]), c, vals, i + 1)

RowMapFirstWins(c, vals) == FillFirstWins(<<>>, c, vals, 1)

RowMapSkipNull(c, vals) == FillSkipNull(<<>>, c, vals, 1)

\* rowMap := map[string]interface{}{} and the loop that fills it
RowMap(c, vals) == Fill(<<>>, c, vals, 1)

\* rows.Scan(ptrs...): the values of cursor row i, one per column
ScanRow(d, c, i) == [j \in 1..Len(c) |-> Cell(i, j, d.seed)]

\* result = append(result, rowMap)
AppendRow(rows, m) == Append(rows, m)

\* c.BindJSON(&req)
BindJSON ==
  /\ pc = "bind"
  /\ IF ~req.json
     THEN /\ Return(StatusBadRequest, ErrorBody("Invalid JSON", NoErr))
          /\ UNCHANGED sqlText
     ELSE /\ pc' = "trim"
          /\ sqlText' = req.sql
          /\ UNCHANGED <<resps, cursor, closes>>
  /\ UNCHANGED <<req, stmt, parses, queries, db, fault, deferred, cols,
                 result, iterErr>>

\* sqlText := strings.TrimSpace(req.SQL); the empty check
TrimAndCheckEmpty ==
  /\ pc = "trim"
  /\ sqlText' = TrimSpace(req.sql)
  /\ IF sqlText' = <<>>
     THEN Return(StatusBadRequest, ErrorBody("SQL cannot be empty", NoErr))
     ELSE /\ pc' = "parse"
          /\ UNCHANGED <<resps, cursor, closes>>
  /\ UNCHANGED <<req, stmt, parses, queries, db, fault, deferred, cols,
                 result, iterErr>>

\* stmt, err := sqlparser.Parse(sqlText); the syntax-error return
ParseSQL ==
  /\ pc = "parse"
  /\ parses' = Append(parses, sqlText)
  /\ stmt' = Parse(sqlText).stmt
  /\ IF ParseFailed(Parse(sqlText).err)
     THEN Return(StatusBadRequest, SyntaxErrorBody(Parse(sqlText).err))
     ELSE /\ pc' = "classify"
          /\ UNCHANGED <<resps, cursor, closes>>
  /\ UNCHANGED <<req, sqlText, queries, db, fault, deferred, cols, result,
                 iterErr>>

\* the type switch: only SELECT goes on
OnlySelect ==
  /\ pc = "classify"
  /\ IF ~IsSelect(stmt)
     THEN Return(StatusBadRequest,
                 ErrorBody("Only SELECT statements are allowed", NoErr))
     ELSE /\ pc' = "limit"
          /\ UNCHANGED <<resps, cursor, closes>>
  /\ UNCHANGED <<req, sqlText, stmt, parses, queries, db, fault, deferred,
                 cols, result, iterErr>>

\* the LIMIT injection
InjectLimit ==
  /\ pc = "limit"
  /\ sqlText' = AddLimit(sqlText)
  /\ pc' = "query"
  /\ UNCHANGED <<req, stmt, parses, queries, db, fault, cursor, deferred,
                 closes, cols, result, iterErr, resps>>

\* rows, err := h.db.Query(sqlText); defer rows.Close()
ExecuteQuery ==
  /\ pc = "query"
  /\ queries' = Append(queries, sqlText)
  /\ \E d \in Databases :
       /\ db' = d
       /\ \/ /\ ~DbAccepts(sqlText)
             /\ fault' = fault
             /\ Return(StatusInternalServerError,
                       ErrorBody("Execution failed: ", Err("syntax error", 0)))
             /\ UNCHANGED deferred
          \/ /\ DbAccepts(sqlText)
             /\ fault' = "query"
             /\ Return(StatusInternalServerError,
                       ErrorBody("Execution failed: ", Err("driver error", 0)))
             /\ UNCHANGED deferred
          \/ /\ DbAccepts(sqlText)
             /\ fault' = fault
             /\ cursor' = "open"
             /\ deferred' = TRUE
             /\ pc' = "columns"
             /\ UNCHANGED <<resps, closes>>
  /\ UNCHANGED <<req, sqlText, stmt, parses, cols, result, iterErr>>

\* cols, err := rows.Columns()
GetColumns ==
  /\ pc = "columns"
  /\ \/ /\ fault' = "columns"
        /\ Return(StatusInternalServerError,
                  ErrorBody("Failed to get columns: ", Err("driver error", 0)))
        /\ UNCHANGED cols
     \/ /\ cols' = db.cols
        /\ pc' = "rows"
        /\ UNCHANGED <<fault, resps, cursor, closes>>
  /\ UNCHANGED <<req, sqlText, stmt, parses, queries, db, deferred, result,
                 iterErr>>

\* one turn of for rows.Next() { ... }, or its end
NextRow ==
  /\ pc = "rows"
  /\ \/ /\ Len(result) < CursorRows(sqlText, db.n)
        /\ result' = AppendRow(result,
                       RowMap(cols, ScanRow(db, cols, Len(result) + 1)))
        /\ UNCHANGED <<pc, fault, iterErr, resps, cursor, closes>>
     \/ /\ Len(result) < CursorRows(sqlText, db.n)
        /\ fault' = "scan"
        /\ Return(StatusInternalServerError,
                  FailureBody("Row scan failed: ", Err("driver error", 0),
                              cols, result))
        /\ UNCHANGED <<result, iterErr>>
     \/ /\ Len(result) = CursorRows(sqlText, db.n)
        /\ iterErr' = NoErr
        /\ pc' = "finish"
        /\ UNCHANGED <<result, fault, resps, cursor, closes>>
     \/ /\ iterErr' = Err("driver error", 0)
        /\ fault' = "iteration"
        /\ pc' = "finish"
        /\ UNCHANGED <<result, resps, cursor, closes>>
  /\ UNCHANGED <<req, sqlText, stmt, parses, queries, db, deferred, cols>>

\* the rows.Err() check and the 200 response
Finish ==
  /\ pc = "finish"
  /\ IF iterErr # NoErr
     THEN Return(StatusInternalServerError,
                 FailureBody("Row iteration error: ", iterErr, cols, result))
     ELSE Return(StatusOK, ResultBody(cols, result))
  /\ UNCHANGED <<req, sqlText, stmt, parses, queries, db, fault, deferred,
                 cols, result, iterErr>>

Next ==
  \/ BindJSON
  \/ TrimAndCheckEmpty
  \/ ParseSQL
  \/ OnlySelect
  \/ InjectLimit
  \/ ExecuteQuery
  \/ GetColumns
  \/ NextRow
  \/ Finish

Spec == Init /\ [][Next]_vars

\* ------------------------------------------------------------- properties
Done == pc = "done"

Resp == resps[1]

Range(f) == {f[i] : i \in DOMAIN f}

HasError(r, status, prefix) ==
  /\ r.status = status
  /\ DOMAIN r.body = {"error"}
  /\ r.body.error.prefix = prefix

\* C1: a text that parses to a statement whose kind is not SELECT is
\* answered 400 "Only SELECT statements are allowed", and no query is ever
\* handed to the database for it.
C1_NonSelectRejected ==
  (parses # <<>> /\ stmt \notin {"nil", "Select"}) =>
     /\ queries = <<>>
     /\ cursor = "none"
     /\ Done => /\ Len(resps) = 1
                /\ HasError(Resp, StatusBadRequest,
                            "Only SELECT statements are allowed")

C1_Witness ==
  /\ Done
  /\ stmt = "DDL"
  /\ queries = <<>>
  /\ HasError(Resp, StatusBadRequest, "Only SELECT statements are allowed")

\* A text whose tokens start with SELECT and in which a semicolon is
\* followed by the start of another statement.
IsChained(t) ==
  LET toks == Tokens(t)
  IN /\ toks # <<>>
     /\ toks[1] = "select"
     /\ \E i \in 1..(Len(toks) - 1) :
          /\ toks[i] = "semi"
          /\ toks[i + 1] \in {"select", "insert", "update", "delete", "ddl"}

\* C2 as stated: a semicolon-chained text that starts with a SELECT is
\* rejected with the policy violation, and nothing reaches the database.
C2_ChainedIsPolicyViolation ==
  (Done /\ req.json /\ IsChained(req.sql)) =>
     /\ queries = <<>>
     /\ HasError(Resp, StatusBadRequest, "Only SELECT statements are allowed")

\* C2 amended: a semicolon-chained text that starts with a SELECT is
\* rejected with 400 as a syntax error carrying the parser's message (it is
\* never classified), and nothing is ever handed to the database.
C2_ChainedIsSyntaxError ==
  (req.json /\ IsChained(req.sql)) =>
     /\ queries = <<>>
     /\ cursor = "none"
     /\ pc \notin {"limit", "query"}
     /\ Done => /\ Len(resps) = 1
                /\ HasError(Resp, StatusBadRequest, "SQL syntax error: ")
                /\ Resp.body.error.err # NoErr

C2_Witness ==
  /\ Done
  /\ req.sql = ChainedScenario
  /\ parses = <<<<SEL, SEMI, SP, DDL, SEMI>>>>
  /\ HasError(Resp, StatusBadRequest, "SQL syntax error: ")

\* C3: the text handed to the database is the trimmed request text followed
\* by " LIMIT 100" when the upper-cased trimmed text does not contain LIMIT,
\* and the trimmed text itself when it does.  The text handed over never
\* changes afterwards, so it is examined before the first row is decoded.
C3_LimitInjection ==
  (queries # <<>> /\ result = <<>>) =>
     LET t == Flatten(TrimSpace(req.sql))
     IN IF Contains(ToUpper(t), <<"L","I","M","I","T">>)
        THEN Flatten(queries[1]) = t
        ELSE Flatten(queries[1]) =
               t \o <<" ","L","I","M","I","T"," ","1","0","0">>

C3_Witness ==
  /\ Done
  /\ req.sql = <<SEL, SP, WH>>
  /\ queries = <<<<SEL, SP, WH>>>>

\* C4: an accepted SELECT without LIMIT whose natural result has more than
\* 100 rows is answered 200 with exactly 100 rows, whatever its textual
\* form, when the driver has no failure of its own.
C4_ExactlyHundredRows ==
  (/\ Done
   /\ queries # <<>>
   /\ ~Contains(ToUpper(Flatten(TrimSpace(req.sql))), <<"L","I","M","I","T">>)
   /\ db.n > DefaultLimit
   /\ fault = "none") =>
     /\ Resp.status = StatusOK
     /\ Len(Resp.body.rows) = DefaultLimit

\* C5: a text the parser rejects is answered 400 "SQL syntax error: " with
\* the parser's message, and no query is issued, no cursor opened.
C5_SyntaxErrorRejected ==
  (parses # <<>> /\ stmt = "nil") =>
     /\ queries = <<>>
     /\ cursor = "none"
     /\ Done
     /\ Len(resps) = 1
     /\ HasError(Resp, StatusBadRequest, "SQL syntax error: ")
     /\ Resp.body.error.err.text = "syntax error at position"
     /\ Resp.body.error.err.pos >= 1

C5_Witness ==
  /\ Done
  /\ req.sql = <<SEL, LIM>>
  /\ parses = <<<<SEL, LIM>>>>
  /\ Resp.body.error.err = Err("syntax error at position", 2)

\* C6: an sql field that is empty or only white space is answered 400
\* "SQL cannot be empty"; neither the parser nor the database is called.
C6_EmptyRejected ==
  (req.json /\ \A i \in 1..Len(req.sql) : AllSpace(req.sql[i])) =>
     /\ parses = <<>>
     /\ queries = <<>>
     /\ pc \in {"bind", "trim", "done"}
     /\ Done => /\ Len(resps) = 1
                /\ HasError(Resp, StatusBadRequest, "SQL cannot be empty")

C6_Witness ==
  /\ Done
  /\ req.sql = <<SP, SP>>
  /\ parses = <<>>
  /\ HasError(Resp, StatusBadRequest, "SQL cannot be empty")

\* C7: when the handler has returned, a cursor the query returned has been
\* closed, once; a cursor that was never opened is never closed.
C7_CursorClosed ==
  /\ cursor = "none" => closes = 0
  /\ cursor = "open" => closes = 0 /\ ~Done
  /\ cursor = "closed" => closes = 1 /\ Done
  /\ (queries = <<>> \/ pc = "query") => cursor = "none"

C7_Witness ==
  /\ Done
  /\ fault = "scan"
  /\ Len(result) >= 1
  /\ cursor = "closed"
  /\ closes = 1

\* C8: once the SELECT-only check has passed, a request ends with exactly
\* one response: 500 with only an error message on any failure, however many
\* rows were decoded before it, and otherwise 200 with columns and all rows.
C8_FailureAtomicity ==
  /\ Len(resps) = (IF Done THEN 1 ELSE 0)
  /\ (Done /\ queries # <<>>) =>
        IF fault # "none" \/ ~DbAccepts(queries[1])
        THEN /\ Resp.status = StatusInternalServerError
             /\ DOMAIN Resp.body = {"error"}
        ELSE /\ Resp.status = StatusOK
             /\ DOMAIN Resp.body = {"columns", "rows"}
             /\ Resp.body.columns = db.cols
             /\ Len(Resp.body.rows) = CursorRows(queries[1], db.n)

C8_Witness ==
  /\ Done
  /\ fault = "iteration"
  /\ Len(result) >= 2
  /\ Resp.status = StatusInternalServerError
  /\ DOMAIN Resp.body = {"error"}

\* The last position of a column name in the column list.
IsLastPosition(c, j) == \A k \in (j + 1)..Len(c) : c[k] # c[j]

\* C9: in a 200 response every row has exactly the names of columns as its
\* keys, row i is cursor row i, and a null cell is a key with the null value.
C9_RowShape ==
  (Done /\ Resp.status = StatusOK) =>
     \A i \in 1..Len(Resp.body.rows) :
        /\ DOMAIN Resp.body.rows[i] = Range(Resp.body.columns)
        /\ \A j \in 1..Len(Resp.body.columns) :
             IsLastPosition(Resp.body.columns, j) =>
               Resp.body.rows[i][Resp.body.columns[j]] = Cell(i, j, db.seed)

C9_Witness ==
  /\ Done
  /\ Resp.status = StatusOK
  /\ Resp.body.columns = <<"x", "y">>
  /\ Len(Resp.body.rows) = 2
  /\ Resp.body.rows[1]["y"] = Null
  /\ Resp.body.rows[2]["x"] = Null

\* The column list names some column at two positions.
HasDuplicate(c) == \E j, k \in 1..Len(c) : j < k /\ c[j] = c[k]

\* C10: with a column name at two or more positions the request still ends
\* in 200, and each row holds one entry for the name, the value of its last
\* position, so the row has fewer entries than columns has elements.
C10_DuplicateColumns ==
  (Done /\ HasDuplicate(cols) /\ fault = "none") =>
     /\ Resp.status = StatusOK
     /\ Resp.body.columns = cols
     /\ \A i \in 1..Len(Resp.body.rows) :
          /\ Cardinality(DOMAIN Resp.body.rows[i]) < Len(cols)
          /\ \A j \in 1..Len(cols) :
               IsLastPosition(cols, j) =>
                 Resp.body.rows[i][cols[j]] = Cell(i, j, db.seed)

C10_Witness ==
  /\ Done
  /\ Resp.status = StatusOK
  /\ cols = <<"x", "x">>
  /\ Len(Resp.body.rows) = 2
  /\ Resp.body.rows[1] = [c \in {"x"} |-> Cell(1, 2, db.seed)]

TypeOK ==
  /\ pc \in {"bind", "trim", "parse", "classify", "limit", "query",
             "columns", "rows", "finish", "done"}
  /\ cursor \in {"none", "open", "closed"}
  /\ Len(resps) <= 1
====
